---- MODULE Spec2Model ----
(***************************************************************************)
(* Model of the patch hierarchy of 05-hpc.ipynb: class patch (periodic and *)
(* mesh-refinement ghost fill, restriction, Euler step) and the driver     *)
(* class mr_simulation (construction, initial_data, evolve).               *)
(*                                                                         *)
(* Field values, spacings and times are dyadic rationals m / 2^e held in   *)
(* normal form, with exact arithmetic: every constant of the code (0.25,   *)
(* 0.5, 3, 1/(2 dx) for a spacing that is a power of two) is dyadic, so    *)
(* the code's arithmetic stays inside this set.  IEEE rounding is not      *)
(* modelled.                                                               *)
(***************************************************************************)
EXTENDS Integers, Sequences, FiniteSets, TLC

VARIABLES
    patches,    \* Seq of patch objects, in construction order
    levels,     \* mr_simulation.levels: Seq of Seq of patch ids
    err,        \* the exception that ended the run, or "none"
    pc,         \* where the caller / evolve stands
    t,          \* evolve: local t
    t_end,      \* evolve: argument t_end
    dt,         \* evolve: local dt
    cur,        \* evolve: position in the running for-loop nest (1-based)
    last,       \* the last patch method that ran, with what it read and wrote
    log,        \* the method calls of the current pass of evolve, in order
    passStart,  \* the buffers as they were when the current pass began
    passes,     \* passes of the while loop started by the current evolve call
    ops,        \* method calls made so far by the caller
    asked,      \* the simulated time the caller has asked evolve for so far
    args,       \* the arguments mr_simulation was constructed with
    calls       \* the evolve calls that returned since the data was last seeded

vars == <<patches, levels, err, pc, t, t_end, dt, cur, last, log, passStart, passes, ops, asked,
          args, calls>>

----------------------------------------------------------------------------
(* Dyadic rationals: [m |-> mantissa, e |-> exponent] stands for m / 2^e.   *)

RECURSIVE Pow2(_)
Pow2(n) == IF n <= 0 THEN 1 ELSE 2 * Pow2(n - 1)

RECURSIVE Norm(_, _)
Norm(m, e) ==
    IF m = 0 THEN [m |-> 0, e |-> 0]
    ELSE IF m % 2 = 0 THEN Norm(m \div 2, e - 1)
    ELSE [m |-> m, e |-> e]

D(m, e) == Norm(m, e)
Int2D(n) == Norm(n, 0)
Zero == Int2D(0)

Max(a, b) == IF a >= b THEN a ELSE b

Add(a, b) ==
    LET E == Max(a.e, b.e)
    IN  Norm(a.m * Pow2(E - a.e) + b.m * Pow2(E - b.e), E)

Neg(a) == [m |-> -a.m, e |-> a.e]
Sub(a, b) == Add(a, Neg(b))
Mul(a, b) == Norm(a.m * b.m, a.e + b.e)
Less(a, b) == Sub(a, b).m < 0

\* 1 / a for a power of two a (the spacings of the hierarchy)
Recip(a) == [m |-> a.m, e |-> -a.e]

Quarter == D(1, 2)     \* 0.25
Half == D(1, 1)        \* 0.5
Three == Int2D(3)
Two == Int2D(2)

----------------------------------------------------------------------------
(* numpy arrays.  A buffer is a function field -> (slot -> value) with      *)
(* 0-based fields and slots, as in the code.                                *)

Width(p) == p.nx + 2 * p.ngz

\* Python's index rule: a negative index counts from the end
PyIdx(i, n) == IF i < 0 THEN i + n ELSE i
ValidIdx(i, n) == PyIdx(i, n) >= 0 /\ PyIdx(i, n) < n

\* np.zeros((nv, n))
Zeros(nv, n) == [f \in 0..(nv - 1) |-> [i \in 0..(n - 1) |-> Zero]]

\* a[:, j] = col, for a valid index j
SetCol(a, j, col) == [f \in DOMAIN a |-> [a[f] EXCEPT ![j] = col[f]]]

NoPatch == 0    \* None

\* patch.__init__ with bcs = "Periodic"
NewPatch(nv, nx, ngz, x0, dx, parent, parent_i_start) ==
    [nv |-> nv, nx |-> nx, ngz |-> ngz, x0 |-> x0, dx |-> dx,
     parent |-> parent, parent_i_start |-> parent_i_start,
     data |-> Zeros(nv, nx + 2 * ngz)]

\* faulty variant: any boundary literal is accepted
PatchInitAcceptAll(bcs, nv, nx, ngz, x0, dx, parent, parent_i_start) ==
    [err |-> "none", p |-> <<NewPatch(nv, nx, ngz, x0, dx, parent, parent_i_start)>>]

\* patch.__init__ for any bcs literal: the exception raised and the patches
\* the call yields, one or none
PatchInit(bcs, nv, nx, ngz, x0, dx, parent, parent_i_start) ==
    IF bcs = "Periodic"
    THEN [err |-> "none", p |-> <<NewPatch(nv, nx, ngz, x0, dx, parent, parent_i_start)>>]
    ELSE [err |-> "NotImplementedError", p |-> <<>>]

\* d / k for an integer k > 0: the factors 2 of k go into the exponent, the
\* odd factor divides the mantissa (exactly, for the quotients the program
\* forms: a whole number of spacings divided by that number)
RECURSIVE DivInt(_, _)
DivInt(d, k) ==
    IF k % 2 = 0 THEN DivInt([m |-> d.m, e |-> d.e + 1], k \div 2)
    ELSE Norm(d.m \div k, d.e)

\* np.linspace(start, stop, num), endpoint included: start + i * step with
\* step = (stop - start) / (num - 1)
Linspace(start, stop, num) ==
    LET step == DivInt(Sub(stop, start), num - 1)
    IN  [i \in 0..(num - 1) |-> Add(start, Mul(Int2D(i), step))]

\* faulty variant: the points start at the left ghost face, not at the first
\* cell centre
GridCellFaces(p) ==
    Linspace(Sub(p.x0, Mul(Int2D(p.ngz), p.dx)),
             Add(p.x0, Mul(Int2D(p.nx + p.ngz - 1), p.dx)),
             p.nx + 2 * p.ngz)

\* patch.grid: np.linspace(x0-(ngz-0.5)*dx, x0+(nx+ngz-0.5)*dx, nx+2*ngz)
Grid(p) ==
    Linspace(Sub(p.x0, Mul(Sub(Int2D(p.ngz), Half), p.dx)),
             Add(p.x0, Mul(Sub(Int2D(p.nx + p.ngz), Half), p.dx)),
             p.nx + 2 * p.ngz)

\* patch.bcs_periodic: two slice assignments, the second reading the result
\* of the first; numpy copies an overlapping source before it writes
BcsPeriodicRow(row, n, ngz) ==
    LET r1 == [i \in 0..(n - 1) |->
                  IF i < ngz THEN row[n - 2 * ngz + i] ELSE row[i]]
    IN  [i \in 0..(n - 1) |->
            IF i >= n - ngz THEN r1[ngz + (i - (n - ngz))] ELSE r1[i]]

BcsPeriodic(p) ==
    [f \in DOMAIN p.data |-> BcsPeriodicRow(p.data[f], Width(p), p.ngz)]

\* the slots bcs_periodic assigns
BcsPeriodicWrites(p) ==
    {i \in 0..(Width(p) - 1) : i < p.ngz \/ i >= Width(p) - p.ngz}

\* flux_advection
FluxAdvection(q) == Mul(Int2D(1), q)

\* RHS_advection: a fresh zero array whose row 0, slots 1 .. n-2, holds the
\* centred difference of the argument q
RHSAdvection(q, n, dx) ==
    [f \in DOMAIN q |->
        [i \in 0..(n - 1) |->
            IF f = 0 /\ i >= 1 /\ i <= n - 2
            THEN Mul(Neg(Recip(Mul(Two, dx))),
                     Sub(FluxAdvection(q[0][i + 1]), FluxAdvection(q[0][i - 1])))
            ELSE Zero]]

\* faulty variant: row 0 is updated slot by slot in place, so the difference at slot i
\* reads the already updated slot i - 1
RECURSIVE SweepRow(_, _, _, _)
SweepRow(row, i, n, c) ==
    IF i > n - 2 THEN row
    ELSE SweepRow([row EXCEPT ![i] = Add(row[i], Mul(c, Sub(row[i + 1], row[i - 1])))],
                  i + 1, n, c)

EulerUpdateInPlace(p, dtv) ==
    [f \in DOMAIN p.data |->
        IF f = 0
        THEN SweepRow(p.data[0], 1, Width(p), Mul(dtv, Neg(Recip(Mul(Two, p.dx)))))
        ELSE p.data[f]]

\* self.data += dt * self.problem.rhs(self.data, self.dx)
EulerUpdate(p, dtv) ==
    LET dqdt == RHSAdvection(p.data, Width(p), p.dx)
    IN  [f \in DOMAIN p.data |->
            [i \in 0..(Width(p) - 1) |-> Add(p.data[f][i], Mul(dtv, dqdt[f][i]))]]

\* faulty variant: the weights of the two leading statements are exchanged
MrStmtSwapped(p, i, j) ==
    LET i_s == p.parent_i_start
        i_e == p.parent_i_start + p.ngz \div 2
    IN  CASE j = 0 -> [dst |-> 2 * i,      w1 |-> 3, s1 |-> i_s - 2, w2 |-> 1, s2 |-> i_s - 1]
          [] j = 1 -> [dst |-> 2 * i + 1,  w1 |-> 1, s1 |-> i_s - 1, w2 |-> 3, s2 |-> i_s]
          [] j = 2 -> [dst |-> -2 * i - 1, w1 |-> 3, s1 |-> i_e + 1, w2 |-> 1, s2 |-> i_e + 2]
          [] j = 3 -> [dst |-> -2 * i - 2, w1 |-> 1, s1 |-> i_e,     w2 |-> 3, s2 |-> i_e + 1]

\* patch.bcs_mr, one statement of the loop body: statement j (0..3) of
\* iteration i assigns child slot dst the value 0.25*(w1*P[s1] + w2*P[s2]).
\* i_s and i_e do not depend on i.
MrStmt(p, i, j) ==
    LET i_s == p.parent_i_start
        i_e == p.parent_i_start + p.ngz \div 2
    IN  CASE j = 0 -> [dst |-> 2 * i,      w1 |-> 1, s1 |-> i_s - 2, w2 |-> 3, s2 |-> i_s - 1]
          [] j = 1 -> [dst |-> 2 * i + 1,  w1 |-> 3, s1 |-> i_s - 1, w2 |-> 1, s2 |-> i_s]
          [] j = 2 -> [dst |-> -2 * i - 1, w1 |-> 3, s1 |-> i_e + 1, w2 |-> 1, s2 |-> i_e + 2]
          [] j = 3 -> [dst |-> -2 * i - 2, w1 |-> 1, s1 |-> i_e,     w2 |-> 3, s2 |-> i_e + 1]

\* faulty variant: the loop also runs for the odd ghost slot, range((ngz+1)//2)
MrStmtsRoundUp(p) ==
    [k \in 1..(4 * ((p.ngz + 1) \div 2)) |-> MrStmt(p, (k - 1) \div 4, (k - 1) % 4)]

\* the statements of bcs_mr in execution order: range(ngz//2) times four
MrStmts(p) ==
    [k \in 1..(4 * (p.ngz \div 2)) |-> MrStmt(p, (k - 1) \div 4, (k - 1) % 4)]

MrValue(st, pdata, pn) ==
    [f \in DOMAIN pdata |->
        Mul(Quarter, Add(Mul(Int2D(st.w1), pdata[f][PyIdx(st.s1, pn)]),
                         Mul(Int2D(st.w2), pdata[f][PyIdx(st.s2, pn)])))]

\* runs statements k.. of bcs_mr on the child buffer d; an index outside the
\* parent's buffer raises IndexError and leaves the earlier assignments done
RECURSIVE RunMr(_, _, _, _, _, _)
RunMr(stmts, k, d, n, pdata, pn) ==
    IF k > Len(stmts) THEN [data |-> d, err |-> "none", done |-> k - 1]
    ELSE LET st == stmts[k]
         IN  IF ~(ValidIdx(st.s1, pn) /\ ValidIdx(st.s2, pn) /\ ValidIdx(st.dst, n))
             THEN [data |-> d, err |-> "IndexError", done |-> k - 1]
             ELSE RunMr(stmts, k + 1,
                        SetCol(d, PyIdx(st.dst, n), MrValue(st, pdata, pn)),
                        n, pdata, pn)

\* patch.bcs_mr on patch id of ps: the new patches, the exception raised, the
\* parent slots read and the own slots written.  Every patch the program
\* builds without a parent has parent_i_start None as well, so that on it
\* i_e = self.parent_i_start + self.ngz//2 raises TypeError.
BcsMr(ps, id) ==
    LET p == ps[id]
        stmts == MrStmts(p)
    IN  IF p.parent = NoPatch
        THEN [ps |-> ps, err |-> "TypeError", reads |-> {}, writes |-> {}]
        ELSE IF Len(stmts) = 0
        THEN [ps |-> ps, err |-> "none", reads |-> {}, writes |-> {}]
        ELSE LET par == ps[p.parent]
                 r == RunMr(stmts, 1, p.data, Width(p), par.data, Width(par))
             IN  [ps |-> [ps EXCEPT ![id].data = r.data],
                  err |-> r.err,
                  reads |-> UNION {{PyIdx(stmts[k].s1, Width(par)),
                                    PyIdx(stmts[k].s2, Width(par))} : k \in 1..r.done},
                  writes |-> {PyIdx(stmts[k].dst, Width(p)) : k \in 1..r.done}]

\* faulty variant: the pair is taken without the ghost offset, cells 2i and 2i+1 of
\* the buffer
RestrictMeanNoGhostOffset(p, i) ==
    [f \in DOMAIN p.data |-> Mul(Half, Add(p.data[f][2 * i], p.data[f][2 * i + 1]))]

\* restrict_interior, the right-hand side of iteration i:
\* 0.5 * (self.data[:, 2*i+self.ngz] + self.data[:, 2*i+1+self.ngz])
RestrictMean(p, i) ==
    [f \in DOMAIN p.data |->
        Mul(Half, Add(p.data[f][2 * i + p.ngz], p.data[f][2 * i + 1 + p.ngz]))]

\* faulty variant: the loop stops without an error at the end of the parent's
\* buffer
RECURSIVE RunRestrictClipped(_, _, _, _)
RunRestrictClipped(p, i, pd, pn) ==
    IF i >= p.nx \div 2 \/ ~ValidIdx(p.parent_i_start + i, pn)
    THEN [data |-> pd, err |-> "none", done |-> i]
    ELSE RunRestrictClipped(p, i + 1,
            SetCol(pd, PyIdx(p.parent_i_start + i, pn), RestrictMean(p, i)), pn)

\* the loop of restrict_interior from iteration i on, writing the parent
\* buffer pd; an index outside it raises IndexError
RECURSIVE RunRestrict(_, _, _, _)
RunRestrict(p, i, pd, pn) ==
    IF i >= p.nx \div 2 THEN [data |-> pd, err |-> "none", done |-> i]
    ELSE IF ~ValidIdx(p.parent_i_start + i, pn)
    THEN [data |-> pd, err |-> "IndexError", done |-> i]
    ELSE RunRestrict(p, i + 1,
            SetCol(pd, PyIdx(p.parent_i_start + i, pn), RestrictMean(p, i)), pn)

\* faulty variant: the means are assigned to self.data instead of self.parent.data
RestrictInteriorIntoSelf(ps, id) ==
    LET p == ps[id]
    IN  IF p.parent = NoPatch
        THEN [ps |-> ps, err |-> "none", writes |-> {}]
        ELSE LET r == RunRestrict(p, 0, p.data, Width(p))
             IN  [ps |-> [ps EXCEPT ![id].data = r.data],
                  err |-> r.err,
                  writes |-> {PyIdx(p.parent_i_start + i, Width(p)) : i \in 0..(r.done - 1)}]

\* faulty variant: no test for a missing parent, so that the first iteration
\* fails on self.parent.data
RestrictInteriorNoGuard(ps, id) ==
    LET p == ps[id]
    IN  IF p.parent = NoPatch
        THEN [ps |-> ps, err |-> IF p.nx \div 2 = 0 THEN "none" ELSE "AttributeError",
              writes |-> {}]
        ELSE LET par == ps[p.parent]
                 r == RunRestrict(p, 0, par.data, Width(par))
             IN  [ps |-> [ps EXCEPT ![p.parent].data = r.data],
                  err |-> r.err,
                  writes |-> {PyIdx(p.parent_i_start + i, Width(par)) : i \in 0..(r.done - 1)}]

\* patch.restrict_interior on patch id of ps
RestrictInterior(ps, id) ==
    LET p == ps[id]
    IN  IF p.parent = NoPatch
        THEN [ps |-> ps, err |-> "none", writes |-> {}]
        ELSE LET par == ps[p.parent]
                 r == RunRestrict(p, 0, par.data, Width(par))
             IN  [ps |-> [ps EXCEPT ![p.parent].data = r.data],
                  err |-> r.err,
                  writes |-> {PyIdx(p.parent_i_start + i, Width(par)) : i \in 0..(r.done - 1)}]

\* patch.euler_step on patch id of ps: the update, then the ghost fill chosen
\* by "parent is None".  mid is the buffer between the two, rhs the argument
\* of each evaluation of problem.rhs.
EulerStep(ps, id, dtv) ==
    LET p == ps[id]
        mid == EulerUpdate(p, dtv)
        ps1 == [ps EXCEPT ![id].data = mid]
    IN  IF p.parent = NoPatch
        THEN [ps |-> [ps1 EXCEPT ![id].data = BcsPeriodic(ps1[id])],
              err |-> "none", mid |-> mid, rhs |-> <<p.data>>, bc |-> "bcs_periodic",
              reads |-> {}, writes |-> BcsPeriodicWrites(p)]
        ELSE LET r == BcsMr(ps1, id)
             IN  [ps |-> r.ps, err |-> r.err, mid |-> mid, rhs |-> <<p.data>>, bc |-> "bcs_mr",
                  reads |-> r.reads, writes |-> r.writes]

\* for p in order: p.euler_step(dt), from the k-th patch of order on; an
\* exception ends the loop
RECURSIVE StepAll(_, _, _, _)
StepAll(ps, order, dtv, k) ==
    IF k > Len(order) THEN [ps |-> ps, err |-> "none"]
    ELSE LET r == EulerStep(ps, order[k], dtv)
         IN  IF r.err # "none" THEN [ps |-> r.ps, err |-> r.err]
             ELSE StepAll(r.ps, order, dtv, k + 1)

\* for p in order: p.restrict_interior(), from the k-th patch of order on
RECURSIVE RestrictAll(_, _, _)
RestrictAll(ps, order, k) ==
    IF k > Len(order) THEN [ps |-> ps, err |-> "none"]
    ELSE LET r == RestrictInterior(ps, order[k])
         IN  IF r.err # "none" THEN [ps |-> r.ps, err |-> r.err]
             ELSE RestrictAll(r.ps, order, k + 1)

\* one iteration of the hand-written loop over p1, p2, p3 (lines 231-234):
\* for p in [p1, p2, p3]: p.euler_step(dt)
\* for p in [p3, p2, p1]: p.restrict_interior()
ManualIteration(ps, dtv) ==
    LET r == StepAll(ps, <<1, 2, 3>>, dtv, 1)
    IN  IF r.err # "none" THEN r ELSE RestrictAll(r.ps, <<3, 2, 1>>, 1)

\* the calls of one such iteration, in order
ManualCalls ==
    <<[op |-> "euler_step", id |-> 1], [op |-> "euler_step", id |-> 2],
      [op |-> "euler_step", id |-> 3], [op |-> "restrict_interior", id |-> 3],
      [op |-> "restrict_interior", id |-> 2], [op |-> "restrict_interior", id |-> 1]>>

----------------------------------------------------------------------------
(* mr_simulation                                                            *)

\* the patches of one refined level i >= 1: for j, xc in enumerate(x_centres),
\* parent levels[i-1][j].  lv is the list of levels built so far (level i-1
\* is lv[i]), ps the patches built so far.
\* faulty variant: every refined level gets half the base spacing
LevelDxFlat(base_dx, i) == Mul(base_dx, Half)
\* dx = base_dx / (2**i)
LevelDx(base_dx, i) == Mul(base_dx, D(1, i))

RECURSIVE BuildLevel(_, _, _, _, _, _, _, _, _)
BuildLevel(nv, base_dx, x_centres, child_nx, i, j, ps, lv, level) ==
    IF j > Len(x_centres) THEN [ps |-> ps, level |-> level, err |-> "none"]
    ELSE IF j > Len(lv[i]) THEN [ps |-> ps, level |-> level, err |-> "IndexError"]
    ELSE LET dx == LevelDx(base_dx, i)
             xc == x_centres[j]
             p == NewPatch(nv, child_nx, 1,
                           Sub(xc, Mul(Mul(Half, Int2D(child_nx)), dx)), dx,
                           lv[i][j], child_nx \div 4 + 1)
         IN  BuildLevel(nv, base_dx, x_centres, child_nx, i, j + 1,
                        Append(ps, p), lv, Append(level, Len(ps) + 1))

RECURSIVE BuildLevels(_, _, _, _, _, _, _, _)
BuildLevels(nv, base_dx, nlevels, x_centres, child_nx, i, ps, lv) ==
    IF i >= nlevels THEN [patches |-> ps, levels |-> lv, err |-> "none"]
    ELSE LET r == BuildLevel(nv, base_dx, x_centres, child_nx, i, 1, ps, lv, <<>>)
         IN  IF r.err # "none"
             THEN [patches |-> <<>>, levels |-> <<>>, err |-> r.err]
             ELSE BuildLevels(nv, base_dx, nlevels, x_centres, child_nx, i + 1,
                              r.ps, Append(lv, r.level))

\* mr_simulation.__init__
MrSimulation(nv, base_dx, base_nx, nlevels, x_centres, child_nx) ==
    LET p_base == NewPatch(nv, base_nx, 1, Zero, base_dx, NoPatch, NoPatch)
    IN  BuildLevels(nv, base_dx, nlevels, x_centres, child_nx, 1,
                    <<p_base>>, <<<<1>>>>)

\* for level in self.levels: for p in level
RECURSIVE Flatten(_)
Flatten(lv) == IF lv = <<>> THEN <<>> ELSE Head(lv) \o Flatten(Tail(lv))

\* self.levels[::-1]
Reverse(sq) == [k \in 1..Len(sq) |-> sq[Len(sq) + 1 - k]]

\* faulty variant: only the base level is stepped
StepOrderBaseOnly(lv) == Head(lv)
\* the order in which evolve steps the patches (lines 280-282)
StepOrder(lv) == Flatten(lv)
\* faulty variant: the levels are restricted coarsest first
RestrictOrderCoarseFirst(lv) == Flatten(lv)
\* the order in which evolve restricts the patches (lines 283-285)
RestrictOrder(lv) == Flatten(Reverse(lv))

\* the level (0-based) that holds patch id
LevelOf(lv, id) == CHOOSE i \in 0..(Len(lv) - 1) : \E k \in 1..Len(lv[i + 1]) : lv[i + 1][k] = id

Abs(a) == IF a.m < 0 THEN Neg(a) ELSE a

\* initial_data's profile exp(-((x-0.5)/width)**2), a bump centred on 0.5
\* that falls off with |x - 0.5| / width.  exp is not dyadic: the profile is
\* modelled by 1 - |x - 0.5| / width, which keeps what the program depends
\* on (the value is a function of the coordinate and the width alone) and
\* stays dyadic for a width that is a power of two.
Gaussian(x, width) ==
    Sub(Int2D(1), Mul(Abs(Sub(x, Half)), Recip(width)))

\* faulty variant: only the interior slots are assigned
InitialDataInteriorOnly(ps, width) ==
    [id \in 1..Len(ps) |->
        [ps[id] EXCEPT !.data =
            [f \in DOMAIN ps[id].data |->
                [i \in 0..(Width(ps[id]) - 1) |->
                    IF f = 0 /\ i >= ps[id].ngz /\ i < ps[id].ngz + ps[id].nx
                    THEN Gaussian(Grid(ps[id])[i], width)
                    ELSE ps[id].data[f][i]]]]]

\* faulty variant: the buffer is replaced by an array over the interior alone
InitialDataResized(ps, width) ==
    [id \in 1..Len(ps) |->
        [ps[id] EXCEPT !.data =
            [f \in DOMAIN ps[id].data |->
                [i \in 0..(ps[id].nx - 1) |->
                    Gaussian(Grid(ps[id])[i + ps[id].ngz], width)]]]]

\* mr_simulation.initial_data: row 0 of every patch, ghosts included
InitialData(ps, width) ==
    [id \in 1..Len(ps) |->
        [ps[id] EXCEPT !.data =
            [f \in DOMAIN ps[id].data |->
                IF f = 0
                THEN [i \in 0..(Width(ps[id]) - 1) |-> Gaussian(Grid(ps[id])[i], width)]
                ELSE ps[id].data[f]]]]

----------------------------------------------------------------------------
(* Bounds of the model                                                      *)

MaxBaseNx == 4      \* base_nx in 1..MaxBaseNx
MaxChildNx == 4     \* child_nx in 1..MaxChildNx
MaxLevels == 3      \* nlevels in 1..MaxLevels
MaxCentres == 2     \* len(x_centres) in 0..MaxCentres
MaxT == 3           \* the t_end of all evolve calls sum to at most MaxT * TQuantum
MaxCalls == 2       \* calls of initial_data / evolve made on one hierarchy
MaxNx == 4          \* hand-built patches: nx in 1..MaxNx
MaxNgz == 2         \* hand-built patches: ngz in 1..MaxNgz
MaxStart == 4       \* hand-built patches: parent_i_start in 0..MaxStart
MaxOps == 1         \* method calls made on the hand-built patches after seeding
NProfiles == 2      \* data profiles assigned to the hand-built patches

Nvs == {1, 2}                   \* problem.nv
BaseDxs == {Int2D(1), Half}     \* base_dx
Widths == {Int2D(1), Two}       \* width of initial_data
TQuantum == D(1, MaxLevels + 1)     \* 0.5 * the finest spacing the bounds allow
TEnds == {Mul(Int2D(k), TQuantum) : k \in -1..MaxT}   \* t_end

\* x_centres of length n: the middle of the base domain, then one base cell
\* further right for each further centre
Centres(n, base_nx, base_dx) ==
    [j \in 1..n |-> Add(Mul(Mul(Half, Int2D(base_nx)), base_dx),
                        Mul(Int2D(j - 1), base_dx))]

NoLast ==
    [op |-> "none", id |-> 0, pre |-> <<>>, mid |-> <<>>, rhs |-> <<>>, bc |-> "none",
     reads |-> {}, writes |-> {}, dt |-> Zero, bcs |-> "none", out |-> <<>>]

----------------------------------------------------------------------------
(* Spec: a hierarchy built by mr_simulation, seeded and evolved             *)

Init ==
    \E nv \in {1}, base_dx \in BaseDxs, base_nx \in 1..MaxBaseNx,
       nlevels \in 1..MaxLevels, nc \in 0..MaxCentres, child_nx \in 1..MaxChildNx :
        LET r == MrSimulation(nv, base_dx, base_nx, nlevels,
                              Centres(nc, base_nx, base_dx), child_nx)
        IN  /\ patches = r.patches
            /\ levels = r.levels
            /\ err = r.err
            /\ pc = IF r.err = "none" THEN "ready" ELSE "raised"
            /\ t = Zero /\ t_end = Zero /\ dt = Zero
            /\ cur = 0
            /\ last = NoLast
            /\ log = <<>>
            /\ passStart = r.patches
            /\ passes = 0
            /\ ops = 0
            /\ asked = Zero
            /\ args = [base_dx |-> base_dx, base_nx |-> base_nx, nlevels |-> nlevels,
                       x_centres |-> Centres(nc, base_nx, base_dx), child_nx |-> child_nx]
            /\ calls = <<>>

\* mr1.initial_data(width)
CallInitialData ==
    /\ pc = "ready" /\ ops < MaxCalls
    /\ \E width \in Widths :
        /\ patches' = InitialData(patches, width)
        /\ last' = [NoLast EXCEPT !.op = "initial_data", !.pre = patches]
    /\ ops' = ops + 1
    /\ calls' = <<>>
    /\ UNCHANGED <<levels, err, pc, t, t_end, dt, cur, log, passStart, passes, asked, args>>

\* faulty variant: the step is taken from the base level
EvolveDtBase(ps, lv) == Mul(Half, ps[lv[1][1]].dx)
\* dt = 0.5 * self.levels[-1][0].dx
EvolveDt(ps, lv) == Mul(Half, ps[lv[Len(lv)][1]].dx)

\* mr1.evolve(t_end) up to the while loop: dt = 0.5 * self.levels[-1][0].dx, t = 0
CallEvolve ==
    /\ pc = "ready" /\ ops < MaxCalls
    /\ ops' = ops + 1
    /\ \E te \in TEnds :
        /\ ~Less(Mul(Int2D(MaxT), TQuantum), Add(asked, te))
        /\ asked' = IF Less(Zero, te) THEN Add(asked, te) ELSE asked
        /\ IF levels[Len(levels)] = <<>>
           THEN /\ err' = "IndexError" /\ pc' = "raised"
                /\ UNCHANGED <<t, t_end, dt>>
           ELSE /\ dt' = EvolveDt(patches, levels)
                /\ t' = Zero
                /\ t_end' = te
                /\ pc' = "while"
                /\ UNCHANGED err
    /\ passes' = 0
    /\ log' = <<>>
    /\ last' = NoLast
    /\ UNCHANGED <<patches, levels, cur, passStart, args, calls>>

\* while t < t_end: t += dt; falling out of the loop returns to the caller
WhileTest ==
    /\ pc = "while"
    /\ IF Less(t, t_end)
       THEN /\ t' = Add(t, dt)
            /\ pc' = "step"
            /\ cur' = 1
            /\ log' = <<>>
            /\ passStart' = patches
            /\ passes' = passes + 1
            /\ UNCHANGED calls
       ELSE /\ pc' = "ready"
            /\ calls' = Append(calls, [t_end |-> t_end, passes |-> passes, t |-> t])
            /\ UNCHANGED <<t, cur, log, passStart, passes>>
    /\ UNCHANGED <<patches, levels, err, t_end, dt, last, ops, asked, args>>

\* one p.euler_step(dt) of the first for-loop nest
StepPatch ==
    /\ pc = "step"
    /\ LET order == StepOrder(levels)
           id == order[cur]
           r == EulerStep(patches, id, dt)
       IN  /\ patches' = r.ps
           /\ err' = r.err
           /\ last' = [op |-> "euler_step", id |-> id, pre |-> patches, mid |-> r.mid, rhs |-> r.rhs,
                       bc |-> r.bc, reads |-> r.reads, writes |-> r.writes, dt |-> dt, bcs |-> "none",
                        out |-> <<>>]
           /\ log' = Append(log, [op |-> "euler_step", id |-> id,
                                  level |-> LevelOf(levels, id), rhs |-> r.rhs])
           /\ IF r.err # "none" THEN pc' = "raised" /\ UNCHANGED cur
              ELSE IF cur = Len(order) THEN pc' = "restrict" /\ cur' = 1
              ELSE pc' = "step" /\ cur' = cur + 1
    /\ UNCHANGED <<levels, t, t_end, dt, passStart, passes, ops, asked, args, calls>>

\* one p.restrict_interior() of the second for-loop nest
RestrictPatch ==
    /\ pc = "restrict"
    /\ LET order == RestrictOrder(levels)
           id == order[cur]
           r == RestrictInterior(patches, id)
       IN  /\ patches' = r.ps
           /\ err' = r.err
           /\ last' = [NoLast EXCEPT !.op = "restrict_interior", !.id = id,
                                     !.pre = patches, !.writes = r.writes]
           /\ log' = Append(log, [op |-> "restrict_interior", id |-> id,
                                  level |-> LevelOf(levels, id), rhs |-> <<>>])
           /\ IF r.err # "none" THEN pc' = "raised" /\ UNCHANGED cur
              ELSE IF cur = Len(order) THEN pc' = "while" /\ cur' = 0
              ELSE pc' = "restrict" /\ cur' = cur + 1
    /\ UNCHANGED <<levels, t, t_end, dt, passStart, passes, ops, asked, args, calls>>

Next == CallInitialData \/ CallEvolve \/ WhileTest \/ StepPatch \/ RestrictPatch

Spec == Init /\ [][Next]_vars

----------------------------------------------------------------------------
(* SpecPatch: three hand-built patches p1 <- p2 <- p3 as in the notebook's  *)
(* mesh-refinement cell, with the patch methods called on them directly     *)

\* p1, p2, p3 (lines 176, 219, 220) for a common nx and ngz; a child's left
\* edge is the left face of the parent cell at slot parent_i_start
DemoPatches(nv, nx, ngz, i_start) ==
    LET p1 == NewPatch(nv, nx, ngz, Zero, Int2D(1), NoPatch, NoPatch)
        p2 == NewPatch(nv, nx, ngz,
                       Add(p1.x0, Mul(Int2D(i_start - ngz), p1.dx)),
                       Half, 1, i_start)
        p3 == NewPatch(nv, nx, ngz,
                       Add(p2.x0, Mul(Int2D(i_start - ngz), p2.dx)),
                       Quarter, 2, i_start)
    IN  <<p1, p2, p3>>

\* the value profile k gives slot i of field f of patch id
ProfileVal(k, id, f, i) ==
    IF k = 1 THEN Int2D(2 * i * id + f)
    ELSE Int2D((k - 1) * i * i + id + f)

\* for p in [p1, p2, p3]: p.data[f, :] = profile (line 222-224)
SeedData(ps, k) ==
    [id \in 1..Len(ps) |->
        [ps[id] EXCEPT !.data =
            [f \in DOMAIN ps[id].data |->
                [i \in 0..(Width(ps[id]) - 1) |-> ProfileVal(k, id, f, i)]]]]

InitPatch ==
    \E nv \in Nvs, nx \in 1..MaxNx, ngz \in 1..MaxNgz, i_start \in 0..MaxStart :
        /\ patches = DemoPatches(nv, nx, ngz, i_start)
        /\ levels = <<>>
        /\ err = "none"
        /\ pc = "new"
        /\ t = Zero /\ t_end = Zero
        /\ dt = Mul(Half, Quarter)          \* dt = 0.5 * p3.dx (line 227)
        /\ cur = 0
        /\ last = NoLast
        /\ log = <<>>
        /\ passStart = <<>>
        /\ passes = 0
        /\ ops = 0
        /\ asked = Zero
        /\ args = <<>>
        /\ calls = <<>>

SeedPatches ==
    /\ pc = "new"
    /\ \E k \in 1..NProfiles : patches' = SeedData(patches, k)
    /\ pc' = "seeded"
    /\ last' = [NoLast EXCEPT !.op = "seed", !.pre = patches]
    /\ UNCHANGED <<levels, err, t, t_end, dt, cur, log, passStart, passes, ops, asked,
                   args, calls>>

CanCall == pc = "seeded" /\ ops < MaxOps

AfterCall(e) ==
    /\ err' = e
    /\ pc' = IF e = "none" THEN "seeded" ELSE "raised"
    /\ ops' = ops + 1
    /\ UNCHANGED <<levels, t, t_end, dt, cur, log, passStart, passes, asked, args, calls>>

\* p.euler_step(dt)
CallEulerStep ==
    /\ CanCall
    /\ \E id \in 1..Len(patches) :
        LET r == EulerStep(patches, id, dt)
        IN  /\ patches' = r.ps
            /\ last' = [op |-> "euler_step", id |-> id, pre |-> patches, mid |-> r.mid, rhs |-> r.rhs,
                        bc |-> r.bc, reads |-> r.reads, writes |-> r.writes, dt |-> dt, bcs |-> "none",
                        out |-> <<>>]
            /\ AfterCall(r.err)

\* p.bcs(), which is p.bcs_periodic()
CallBcs ==
    /\ CanCall
    /\ \E id \in 1..Len(patches) :
        /\ patches' = [patches EXCEPT ![id].data = BcsPeriodic(patches[id])]
        /\ last' = [NoLast EXCEPT !.op = "bcs_periodic", !.id = id, !.pre = patches,
                                  !.writes = BcsPeriodicWrites(patches[id])]
        /\ AfterCall("none")

\* p.bcs_mr()
CallBcsMr ==
    /\ CanCall
    /\ \E id \in 1..Len(patches) :
        LET r == BcsMr(patches, id)
        IN  /\ patches' = r.ps
            /\ last' = [NoLast EXCEPT !.op = "bcs_mr", !.id = id, !.pre = patches,
                                      !.reads = r.reads, !.writes = r.writes]
            /\ AfterCall(r.err)

\* p.restrict_interior()
CallRestrict ==
    /\ CanCall
    /\ \E id \in 1..Len(patches) :
        LET r == RestrictInterior(patches, id)
        IN  /\ patches' = r.ps
            /\ last' = [NoLast EXCEPT !.op = "restrict_interior", !.id = id,
                                      !.pre = patches, !.writes = r.writes]
            /\ AfterCall(r.err)

NextPatch == SeedPatches \/ CallEulerStep \/ CallBcs \/ CallBcsMr \/ CallRestrict

SpecPatch == InitPatch /\ [][NextPatch]_vars

----------------------------------------------------------------------------
(* SpecLoop: one iteration of the hand-written loop over p1, p2, p3 (lines  *)
(* 229-234) from seeded buffers, with the list of the stepping phase taken  *)
(* in any order                                                             *)

\* the orders in which the three patches can be stepped; <<1, 2, 3>> is the
\* loop's own [p1, p2, p3]
StepLoopOrders ==
    {o \in {<<a, b, c>> : a \in 1..3, b \in 1..3, c \in 1..3} :
        o[1] # o[2] /\ o[1] # o[3] /\ o[2] # o[3]}

\* for p in [p1, p2, p3]: p.euler_step(dt), with the list in any order
ManualStepPhase ==
    /\ pc = "seeded"
    /\ \E order \in StepLoopOrders :
        LET r == StepAll(patches, order, dt, 1)
        IN  /\ patches' = r.ps
            /\ last' = [NoLast EXCEPT !.op = "step_loop", !.pre = patches, !.dt = dt,
                                      !.out = order]
            /\ err' = r.err
            /\ pc' = IF r.err = "none" THEN "stepped" ELSE "raised"
    /\ ops' = ops + 1
    /\ UNCHANGED <<levels, t, t_end, dt, cur, log, passStart, passes, asked, args, calls>>

\* for p in [p3, p2, p1]: p.restrict_interior()
ManualRestrictPhase ==
    /\ pc = "stepped"
    /\ LET r == RestrictAll(patches, <<3, 2, 1>>, 1)
       IN  /\ patches' = r.ps
           /\ last' = [NoLast EXCEPT !.op = "restrict_loop", !.pre = patches]
           /\ err' = r.err
           /\ pc' = IF r.err = "none" THEN "restricted" ELSE "raised"
    /\ UNCHANGED <<levels, t, t_end, dt, cur, log, passStart, passes, ops, asked, args,
                   calls>>

NextLoop == SeedPatches \/ ManualStepPhase \/ ManualRestrictPhase

SpecLoop == InitPatch /\ [][NextLoop]_vars

----------------------------------------------------------------------------
(* SpecBuild: a root patch p1 and a second patch constructed on it with     *)
(* arguments nobody validated, then seeded and used                         *)

BcsKinds == {"Periodic", "Refined", "Outflow"}      \* bcs literals tried

\* the coordinate of the left face of the cell at slot i of patch q
LeftFace(q, i) == Add(q.x0, Mul(Int2D(i - q.ngz), q.dx))

\* p1 = patch(advection, nx, ngz, 0.0, 1.0, "Periodic", None, None)
InitBuild ==
    \E nx \in 1..MaxNx, ngz \in 1..MaxNgz :
        /\ patches = PatchInit("Periodic", 1, nx, ngz, Zero, Int2D(1), NoPatch, NoPatch).p
        /\ levels = <<>>
        /\ err = "none"
        /\ pc = "build"
        /\ t = Zero /\ t_end = Zero
        /\ dt = Mul(Half, Quarter)
        /\ cur = 0
        /\ last = NoLast
        /\ log = <<>>
        /\ passStart = <<>>
        /\ passes = 0
        /\ ops = 0
        /\ asked = Zero
        /\ args = <<>>
        /\ calls = <<>>

\* p2 = patch(advection, nx, ngz, x0, dx, bcs, p1, parent_i_start), with p1's
\* nx and ngz, p1's spacing or half of it, and its left edge on the left
\* face of p1's slot parent_i_start
CallPatch ==
    /\ pc = "build"
    /\ \E bcs \in BcsKinds, dx \in {patches[1].dx, Mul(Half, patches[1].dx)},
          i_start \in 0..MaxStart :
        LET r == PatchInit(bcs, patches[1].nv, patches[1].nx, patches[1].ngz,
                           LeftFace(patches[1], i_start), dx, 1, i_start)
        IN  /\ patches' = patches \o r.p
            /\ err' = r.err
            /\ pc' = IF r.err = "none" THEN "new" ELSE "raised"
            /\ last' = [NoLast EXCEPT !.op = "patch", !.pre = patches, !.bcs = bcs]
    /\ UNCHANGED <<levels, t, t_end, dt, cur, log, passStart, passes, ops, asked, args, calls>>

\* x = p.grid()
CallGrid ==
    /\ CanCall
    /\ \E id \in 1..Len(patches) :
        /\ last' = [NoLast EXCEPT !.op = "grid", !.id = id, !.pre = patches,
                                  !.out = Grid(patches[id])]
        /\ patches' = patches
        /\ AfterCall("none")

NextBuild ==
    \/ CallPatch \/ SeedPatches \/ CallEulerStep \/ CallBcs \/ CallBcsMr \/ CallRestrict
    \/ CallGrid

SpecBuild == InitBuild /\ [][NextBuild]_vars

----------------------------------------------------------------------------
(* Claims about evolve, checked under Spec                                  *)

Steps(b) == {a \in 1..(b - 1) : log[a].op = "euler_step"}
Restricts(b) == {a \in 1..(b - 1) : log[a].op = "restrict_interior"}
\* a pass of the while loop has run to its end: control is at the loop test
\* again, or back in the caller
PassDone == pc \in {"while", "ready"} /\ passes > 0

\* C1: in every pass of evolve the restrictions run level by level from the
\* finest level down to level 0: when a patch of level k is restricted, every
\* patch of level k+1 has already been restricted in this pass, the first
\* restriction is on the finest level and the last one of a pass on level 0.
C1_RestrictFinestFirst ==
    /\ \A b \in 1..Len(log) :
        log[b].op = "restrict_interior" =>
            /\ Restricts(b) = {} => log[b].level = Len(levels) - 1
            /\ \A a \in Restricts(b) : log[a].level > log[b].level
            /\ log[b].level + 1 < Len(levels) =>
                  \A k \in 1..Len(levels[log[b].level + 2]) :
                      \E a \in Restricts(b) : log[a].id = levels[log[b].level + 2][k]
    /\ PassDone => log[Len(log)].op = "restrict_interior" /\ log[Len(log)].level = 0

\* a pass on three levels has run to its end
C1_Witness == PassDone /\ Len(levels) = 3 /\ Cardinality(Restricts(Len(log) + 1)) = 3

\* C2: in every pass every patch has finished euler_step before the first
\* restrict_interior starts, no patch is stepped or restricted twice, each
\* step evaluates problem.rhs once, on the patch's own buffer, and a pass that
\* ran to its end stepped and restricted every patch.
C2_StepAllThenRestrict ==
    /\ \A b \in 1..Len(log) :
        /\ log[b].op = "restrict_interior" =>
              /\ \A id \in 1..Len(patches) : \E a \in Steps(b) : log[a].id = id
              /\ \A a \in Restricts(b) : log[a].id # log[b].id
        /\ log[b].op = "euler_step" =>
              /\ Restricts(b) = {}
              /\ \A a \in Steps(b) : log[a].id # log[b].id
              /\ Len(log[b].rhs) = 1
              /\ log[b].rhs[1] = passStart[log[b].id].data
    /\ PassDone =>
          \A id \in 1..Len(patches) :
              /\ \E a \in Steps(Len(log) + 1) : log[a].id = id
              /\ \E a \in Restricts(Len(log) + 1) : log[a].id = id

\* the second pass of an evolve call on three levels has run to its end
C2_Witness == PassDone /\ Len(levels) = 3 /\ passes = 2 /\ Len(log) = 6

\* the value linear interpolation in the parent gives slot i of child p: the
\* slot lies in parent cell c, in its left half when i - ngz is even, and
\* takes 3/4 of that cell and 1/4 of the neighbour on its own side
ProlongCell(p, i) == p.parent_i_start + (i - p.ngz) \div 2
Prolongation(p, prow, i) ==
    LET c == ProlongCell(p, i)
    IN  IF (i - p.ngz) % 2 = 0
        THEN Mul(Quarter, Add(prow[c - 1], Mul(Three, prow[c])))
        ELSE Mul(Quarter, Add(Mul(Three, prow[c]), prow[c + 1]))

GhostSlots(p) == {i \in 0..(Width(p) - 1) : i < p.ngz \/ i >= p.ngz + p.nx}
InteriorSlots(p) == {i \in 0..(Width(p) - 1) : i >= p.ngz /\ i < p.ngz + p.nx}

\* C3: after every euler_step in a hierarchy built by mr_simulation every
\* ghost slot of the patch holds the value the ghost fill of that step gives
\* it: the periodic image of the patch's updated interior when the patch has
\* no parent (and only then), otherwise the prolongation of the parent's
\* current values.
C3_GhostsRefilled ==
    (last.op = "euler_step" /\ err = "none") =>
        LET p == patches[last.id]
        IN  /\ (p.parent = NoPatch) <=> (last.bc = "bcs_periodic")
            /\ \A f \in DOMAIN p.data : \A i \in GhostSlots(p) :
                  IF p.parent = NoPatch
                  THEN p.data[f][i] = p.data[f][p.ngz + ((i - p.ngz) % p.nx)]
                  ELSE LET par == patches[p.parent]
                           c == ProlongCell(p, i)
                       IN  (c - 1 >= 0 /\ c + 1 < Width(par)) =>
                               p.data[f][i] = Prolongation(p, par.data[f], i)

\* C4: in the stepping pass of evolve the buffer a patch hands to the
\* right-hand side, and every parent slot a child reads during its ghost
\* fill, hold the values they held when the pass began.
C4_StepReadsPassStart ==
    (last.op = "euler_step") =>
        LET p == last.pre[last.id]
        IN  /\ p.data = passStart[last.id].data
            /\ \A s \in last.reads : \A f \in DOMAIN p.data :
                  last.pre[p.parent].data[f][s] = passStart[p.parent].data[f][s]

\* a child has just been stepped, after its parent's step changed the
\* parent's buffer in the same pass
C4_Witness ==
    /\ last.op = "euler_step" /\ pc \in {"step", "restrict"}
    /\ patches[last.id].parent # NoPatch
    /\ patches[patches[last.id].parent].data # passStart[patches[last.id].parent].data
    /\ patches[last.id].data # passStart[last.id].data

----------------------------------------------------------------------------
(* Claims about the patch methods, checked under SpecPatch                  *)

\* bcs_mr has just run, called directly or by euler_step
RanBcsMr == last.op = "bcs_mr" \/ (last.op = "euler_step" /\ last.bc = "bcs_mr")

\* C5: restrict_interior on a patch with a parent writes, for every pair
\* k < nx div 2 and every field, the mean of the child's buffer slots
\* ngz + 2k and ngz + 2k + 1 into slot parent_i_start + k of the parent's
\* buffer (every such slot the buffer has; the call raises IndexError at the
\* first one it lacks), and leaves every other parent slot as it was.
C5_RestrictionMeans ==
    (last.op = "restrict_interior" /\ last.pre[last.id].parent # NoPatch) =>
        LET p == last.pre[last.id]
            before == last.pre[p.parent].data
            after == patches[p.parent].data
            pn == Width(last.pre[p.parent])
            targets == {p.parent_i_start + k : k \in 0..(p.nx \div 2 - 1)}
        IN  \A f \in DOMAIN after :
              /\ \A k \in 0..(p.nx \div 2 - 1) :
                    p.parent_i_start + k < pn =>
                        Mul(Two, after[f][p.parent_i_start + k])
                            = Add(p.data[f][p.ngz + 2 * k], p.data[f][p.ngz + 2 * k + 1])
              /\ \A s \in 0..(pn - 1) : s \notin targets => after[f][s] = before[f][s]
              /\ err = "none" => \A k \in targets : k < pn

\* a restriction of two pairs has returned and changed the parent's buffer
C5_Witness ==
    /\ last.op = "restrict_interior" /\ err = "none"
    /\ patches[last.id].parent # NoPatch
    /\ patches[last.id].nx \div 2 = 2
    /\ patches[patches[last.id].parent].data # last.pre[patches[last.id].parent].data

\* the straight line through the first two slots of field f of patch par,
\* as a function of the coordinate x
LinearAt(par, f, x) ==
    Add(par.data[f][0],
        Mul(Mul(Sub(par.data[f][1], par.data[f][0]), Recip(par.dx)),
            Sub(x, Grid(par)[0])))
IsLinear(par, f) ==
    \A s \in 0..(Width(par) - 1) : par.data[f][s] = LinearAt(par, f, Grid(par)[s])

\* the cells of p lie over interior cells of its parent
InsideParent(p, par) ==
    /\ p.parent_i_start >= par.ngz
    /\ p.parent_i_start + (p.nx + 1) \div 2 <= par.ngz + par.nx

\* C6: for a child with an even ghost count (and an even interior count, so
\* that its right edge is a parent cell face) that lies over its parent's
\* interior, bcs_mr gives every ghost slot,
\* at both edges, the 3/4-1/4 interpolation between the parent cell that
\* contains it and that cell's neighbour; so when the parent's values are
\* linear in the cell-centre coordinate every ghost slot holds the line's
\* value at its own coordinate.
C6_ProlongationBothEdges ==
    (last.op = "bcs_mr" /\ err = "none" /\ patches[last.id].parent # NoPatch
        /\ patches[last.id].ngz % 2 = 0 /\ patches[last.id].nx % 2 = 0
        /\ InsideParent(patches[last.id], patches[patches[last.id].parent])) =>
        LET p == patches[last.id]
            par == patches[p.parent]
        IN  \A f \in DOMAIN p.data : \A i \in GhostSlots(p) :
              (ProlongCell(p, i) - 1 >= 0 /\ ProlongCell(p, i) + 1 < Width(par)) =>
                  /\ p.data[f][i] = Prolongation(p, par.data[f], i)
                  /\ IsLinear(par, f) => p.data[f][i] = LinearAt(par, f, Grid(p)[i])

\* C7: for a child with ghost count 2 and parent values a, b, c at the
\* parent's slots parent_i_start - 2, - 1 and parent_i_start, bcs_mr leaves
\* (a + 3b)/4 in ghost slot 0 and (3b + c)/4 in ghost slot 1, a function of
\* a, b, c alone: 3.5 and (12 + c)/4 for a = 2, b = 4.
C7_LeadingGhosts ==
    (RanBcsMr /\ err = "none" /\ patches[last.id].ngz = 2) =>
        LET p == patches[last.id]
            par == patches[p.parent]
            pn == Width(par)
        IN  \A f \in DOMAIN p.data :
              LET a == par.data[f][PyIdx(p.parent_i_start - 2, pn)]
                  b == par.data[f][PyIdx(p.parent_i_start - 1, pn)]
                  c == par.data[f][PyIdx(p.parent_i_start, pn)]
              IN  /\ Mul(Int2D(4), p.data[f][0]) = Add(a, Mul(Three, b))
                  /\ Mul(Int2D(4), p.data[f][1]) = Add(Mul(Three, b), c)
                  /\ (a = Int2D(2) /\ b = Int2D(4)) =>
                        /\ p.data[f][0] = D(7, 1)
                        /\ p.data[f][1] = Mul(Quarter, Add(Int2D(12), c))

\* bcs_mr has run on a child with ghost count 2 whose parent holds 2 and 4 in
\* slots parent_i_start - 2 and parent_i_start - 1
C7_Witness ==
    /\ last.op = "bcs_mr" /\ err = "none" /\ patches[last.id].ngz = 2
    /\ patches[last.id].parent_i_start >= 2
    /\ LET p == patches[last.id]
       IN  /\ patches[p.parent].data[0][p.parent_i_start - 2] = Int2D(2)
           /\ patches[p.parent].data[0][p.parent_i_start - 1] = Int2D(4)
           /\ p.data[0][0] = D(7, 1)

\* C8: for every patch (nx > 0, ngz >= 1) bcs_periodic leaves in ghost slot i
\* the value of interior cell (i - ngz) mod nx, for every field, and leaves
\* the interior slots as they were.
C8_PeriodicImages ==
    (last.op = "bcs_periodic") =>
        LET p == patches[last.id]
            before == last.pre[last.id].data
        IN  \A f \in DOMAIN p.data :
              /\ \A i \in GhostSlots(p) :
                    p.data[f][i] = before[f][p.ngz + ((i - p.ngz) % p.nx)]
              /\ \A i \in InteriorSlots(p) : p.data[f][i] = before[f][i]

\* C9: euler_step evaluates the right-hand side once, on the whole buffer
\* as it was before the step, and every slot of the buffer that the ghost
\* fill then receives is the old value plus dt times the derivative computed
\* from old values: 2 dx (new - old) = -dt (old[i+1] - old[i-1]) in field 0
\* away from the two end slots, new = old elsewhere.  The ghost fill changes
\* only the slots it assigns.
C9_EulerUpdateFromOld ==
    (last.op = "euler_step") =>
        LET p == last.pre[last.id]
            old == p.data
            n == Width(p)
        IN  /\ last.rhs = <<old>>
            /\ \A f \in DOMAIN old : \A i \in 0..(n - 1) :
                  /\ IF f = 0 /\ i >= 1 /\ i <= n - 2
                     THEN Mul(Mul(Two, p.dx), Sub(last.mid[f][i], old[f][i]))
                              = Neg(Mul(last.dt, Sub(old[f][i + 1], old[f][i - 1])))
                     ELSE last.mid[f][i] = old[f][i]
                  /\ i \notin last.writes => patches[last.id].data[f][i] = last.mid[f][i]

\* a step has changed two neighbouring slots of a buffer
C9_Witness ==
    /\ last.op = "euler_step" /\ err = "none"
    /\ \E i \in 1..(Width(patches[last.id]) - 3) :
          /\ last.mid[0][i] # last.pre[last.id].data[0][i]
          /\ last.mid[0][i + 1] # last.pre[last.id].data[0][i + 1]

\* C10: euler_step and bcs_mr change no patch but the one they are called
\* on; restrict_interior changes no patch but the parent of the one it is
\* called on, so a child writes its parent's buffer through restrict_interior
\* alone.
C10_WritePaths ==
    /\ (last.op \in {"euler_step", "bcs_mr"}) =>
          \A q \in 1..Len(patches) : q # last.id => patches[q] = last.pre[q]
    /\ (last.op = "restrict_interior") =>
          \A q \in 1..Len(patches) :
              q # last.pre[last.id].parent => patches[q] = last.pre[q]

\* the middle patch, a child and a parent at once, has just been restricted
\* into its parent and changed it
C10_Witness ==
    /\ last.op = "restrict_interior" /\ last.id = 2 /\ err = "none"
    /\ patches[1] # last.pre[1]

\* the middle patch has just been stepped with a ghost fill that wrote its
\* ghost slots from its parent
C10_WitnessStep ==
    /\ last.op = "euler_step" /\ last.id = 2 /\ err = "none"
    /\ last.writes # {} /\ patches[2] # last.pre[2]

\* C11: restrict_interior called on a patch with no parent changes no buffer
\* of any patch and raises no error.
C11_NoParentRestrictNoOp ==
    (last.op = "restrict_interior" /\ last.pre[last.id].parent = NoPatch) =>
        /\ patches = last.pre
        /\ err = "none"

\* restrict_interior has returned on the seeded root patch of the chain, which
\* has at least one pair of interior cells
C11_Witness ==
    /\ last.op = "restrict_interior" /\ pc = "seeded"
    /\ patches[last.id].parent = NoPatch
    /\ patches[last.id].nx >= 2
    /\ patches[last.id].data[0][1] # Zero

----------------------------------------------------------------------------
(* Claims about the construction by mr_simulation, checked under Spec       *)

\* C12: for every configuration given to mr_simulation, a child's
\* parent_i_start is the slot of the parent cell whose left face is at the
\* child's left edge x0, so that the child's interior cells 2k and 2k+1
\* cover exactly the parent cell at slot parent_i_start + k.  Stated for the
\* configurations whose children are whole numbers of parent cells wide and
\* no wider than the base domain (child_nx a multiple of 4, at most
\* 2 base_nx).
C12_OffsetAligned ==
    (Len(levels) > 0 /\ args.child_nx % 4 = 0 /\ args.child_nx <= 2 * args.base_nx) =>
        \A id \in 1..Len(patches) :
            patches[id].parent # NoPatch =>
                LET p == patches[id]
                    par == patches[p.parent]
                IN  /\ p.x0 = LeftFace(par, p.parent_i_start)
                    /\ \A k \in 0..(p.nx \div 2 - 1) :
                          /\ LeftFace(p, p.ngz + 2 * k) = LeftFace(par, p.parent_i_start + k)
                          /\ LeftFace(p, p.ngz + 2 * k + 2)
                                = LeftFace(par, p.parent_i_start + k + 1)

\* C13: construction completes for any number of centres and any
\* nlevels >= 1; level 0 is one patch without parent with the base spacing
\* and the base interior count; every level i >= 1 holds one patch per
\* centre, with child_nx interior cells centred on that centre, whose parent
\* is the patch of the same centre on level i-1; a patch's parent lies on a
\* coarser level than the patch.
C13_Construction ==
    /\ err # "IndexError" \/ Len(levels) > 0
    /\ Len(levels) = args.nlevels
    /\ Len(levels[1]) = 1
    /\ patches[levels[1][1]].parent = NoPatch
    /\ patches[levels[1][1]].dx = args.base_dx
    /\ patches[levels[1][1]].nx = args.base_nx
    /\ \A i \in 2..Len(levels) :
          /\ Len(levels[i]) = Len(args.x_centres)
          /\ \A j \in 1..Len(levels[i]) :
                LET p == patches[levels[i][j]]
                IN  /\ p.nx = args.child_nx
                    /\ Add(p.x0, Mul(Mul(Half, Int2D(p.nx)), p.dx)) = args.x_centres[j]
                    /\ p.parent = levels[i - 1][j]
    /\ \A id \in 1..Len(patches) :
          patches[id].parent # NoPatch =>
              LevelOf(levels, patches[id].parent) < LevelOf(levels, id)

\* C14: every patch with a parent has parent and parent_i_start present and
\* an even ghost count ngz, and every patch mr_simulation puts on a level
\* i >= 1 is such a patch.
C14_RefinedEvenGhosts ==
    /\ \A id \in 1..Len(patches) :
          patches[id].parent # NoPatch =>
              /\ patches[id].parent \in 1..Len(patches)
              /\ patches[id].parent_i_start # NoPatch
              /\ patches[id].ngz % 2 = 0
    /\ \A i \in 2..Len(levels) : \A j \in 1..Len(levels[i]) :
          /\ patches[levels[i][j]].parent # NoPatch
          /\ patches[levels[i][j]].ngz % 2 = 0

----------------------------------------------------------------------------
(* Claims about patch construction, checked under SpecBuild                 *)

\* C16: constructing a patch with a boundary literal other than "Periodic"
\* raises an error and yields no patch, a "Periodic" one yields the patch;
\* no later euler_step, ghost fill or restriction on a constructed patch
\* fails over the boundary kind, and euler_step always finds a ghost fill to
\* run.
C16_BoundaryKindAtConstruction ==
    /\ last.op = "patch" =>
          IF last.bcs = "Periodic"
          THEN err = "none" /\ Len(patches) = Len(last.pre) + 1
          ELSE err = "NotImplementedError" /\ pc = "raised" /\ patches = last.pre
    /\ last.op # "patch" => err # "NotImplementedError"
    /\ last.op = "euler_step" => last.bc \in {"bcs_periodic", "bcs_mr"}

\* a constructor call with the literal "Refined" has raised
C16_Witness ==
    /\ last.op = "patch" /\ last.bcs = "Refined"
    /\ err = "NotImplementedError" /\ Len(patches) = 1

\* the restriction footprint of child p reaches outside its parent's interior
FootprintOutside(p, par) ==
    \E k \in 0..(p.nx \div 2 - 1) : (p.parent_i_start + k) \notin InteriorSlots(par)

\* child p is one the claim C17 speaks of
Malformed(p, par) ==
    \/ p.ngz % 2 = 1
    \/ FootprintOutside(p, par)
    \/ Mul(Two, p.dx) # par.dx

\* a method has just been called on the constructed child, which is malformed
OnMalformed ==
    /\ last.op \in {"euler_step", "bcs_mr", "restrict_interior"}
    /\ last.id = 2
    /\ Malformed(patches[2], patches[1])

C17_WitnessSilent ==
    /\ last.op = "euler_step" /\ last.id = 2 /\ err = "none"
    /\ patches[2].ngz % 2 = 1 /\ patches[2].dx = patches[1].dx

----------------------------------------------------------------------------
(* Claims about the time loop of evolve, checked under Spec                 *)

\* C18: within one evolve call every euler_step, on every patch of every
\* level and in every pass, receives the same dt, the one evolve holds all
\* through the call: 0.5 times the spacing of the patches of the last level,
\* which no patch of the hierarchy undercuts.
C18_OneGlobalDt ==
    (pc \in {"while", "step", "restrict"} \/ last.op = "euler_step") =>
        /\ \A k \in 1..Len(levels[Len(levels)]) :
              dt = Mul(Half, patches[levels[Len(levels)][k]].dx)
        /\ \A id \in 1..Len(patches) : ~Less(Mul(Half, patches[id].dx), dt)
        /\ last.op = "euler_step" => last.dt = dt

\* in the second pass of an evolve call on three levels the base patch has
\* been stepped with half the spacing of the third level
C18_Witness ==
    /\ last.op = "euler_step" /\ passes = 2 /\ Len(levels) = 3
    /\ LevelOf(levels, last.id) = 0
    /\ last.dt = Mul(Half, patches[levels[3][1]].dx)
    /\ Less(last.dt, Mul(Half, patches[last.id].dx))

\* n is the smallest number of passes n >= 0 with n * dtv >= te
SmallestPasses(n, dtv, te) ==
    /\ ~Less(Mul(Int2D(n), dtv), te)
    /\ n = 0 \/ Less(Mul(Int2D(n - 1), dtv), te)

\* C19: evolve(t_end) terminates on every hierarchy mr_simulation constructs:
\* it raises nothing, makes exactly the smallest number n >= 0 of passes with
\* n * dt >= t_end, and returns with the simulated time t in
\* [t_end, t_end + dt).
C19_EvolvePasses ==
    /\ pc = "raised" => Len(levels) = 0
    /\ \A c \in 1..Len(calls) :
          /\ SmallestPasses(calls[c].passes, dt, calls[c].t_end)
          /\ ~Less(calls[c].t, calls[c].t_end)
          /\ Less(calls[c].t, Add(calls[c].t_end, dt))

\* C20: after evolve(t1) and then evolve(t2) with t2 > t1 on the same seeded
\* hierarchy, the two calls together have made the passes of a single
\* evolve(t2): the smallest number n with n * dt >= t2.
C20_EvolveContinues ==
    (Len(calls) = 2 /\ Less(calls[1].t_end, calls[2].t_end)) =>
        SmallestPasses(calls[1].passes + calls[2].passes, dt, calls[2].t_end)

\* C24: grid() returns nx + 2 ngz coordinates, the one of slot i being
\* x0 + (i - ngz + 0.5) dx; the result depends on nx, ngz, x0 and dx alone,
\* so that every call gives the same, and the call changes no patch.
C24_GridCoordinates ==
    (last.op = "grid") =>
        LET p == patches[last.id]
        IN  /\ DOMAIN last.out = 0..(p.nx + 2 * p.ngz - 1)
            /\ \A i \in DOMAIN last.out :
                  Mul(Two, Sub(last.out[i], p.x0)) = Mul(Int2D(2 * (i - p.ngz) + 1), p.dx)
            /\ patches = last.pre
            /\ err = "none"

\* grid() has returned on a child with spacing 1/2 whose left edge is not 0
C24_Witness ==
    /\ last.op = "grid" /\ last.id = 2
    /\ patches[2].dx = Half /\ patches[2].x0 # Zero /\ patches[2].ngz = 2
    /\ last.out[0] = Sub(patches[2].x0, D(3, 2))

----------------------------------------------------------------------------
(* Claims about the run as a whole, checked under Spec                      *)

\* the stage of the run: Constructed until the first call, Seeded after
\* initial_data, Evolving inside evolve, Finished after evolve returned,
\* Failed after an exception
PhaseOf(pcv, lastv, callsv) ==
    IF pcv = "raised" THEN "Failed"
    ELSE IF pcv \in {"while", "step", "restrict"} THEN "Evolving"
    ELSE IF lastv.op = "initial_data" THEN "Seeded"
    ELSE IF Len(callsv) > 0 THEN "Finished"
    ELSE "Constructed"

\* C21: a run follows Constructed -> Seeded -> Evolving -> Finished: a
\* constructed hierarchy leaves Constructed only by initial_data, which makes
\* it Seeded; evolve is entered only from Seeded or Finished; an evolve call
\* that started stays Evolving until it is Finished, it never fails.
C21_Lifecycle ==
    [][Len(levels) > 0 =>
        LET a == PhaseOf(pc, last, calls)
            b == PhaseOf(pc', last', calls')
        IN  /\ a = "Constructed" => b \in {"Constructed", "Seeded"}
            /\ (a # "Evolving" /\ b \in {"Evolving", "Failed"}) => a \in {"Seeded", "Finished"}
            /\ a = "Evolving" => b \in {"Evolving", "Finished"}
            /\ b = "Finished" => a \in {"Evolving", "Finished"}
            /\ b # "Failed"]_vars

\* the coordinate of the centre of the cell at slot i of patch q
CellCentre(q, i) == Add(LeftFace(q, i), Mul(Half, q.dx))

\* C22: initial_data gives every slot of every patch of every level, ghost
\* slots included, the initializer's value at the slot's coordinate
\* x0 + (i - ngz + 0.5) dx, whatever the level: slots of different patches at
\* the same coordinate hold the same value.
C22_SeedEverySlot ==
    (last.op = "initial_data") =>
        \* seeded: the pairs <<coordinate, value>> of all slots of all patches
        LET seeded == UNION {{<<CellCentre(patches[id], i), patches[id].data[0][i]>> :
                                 i \in 0..(Width(patches[id]) - 1)} :
                             id \in 1..Len(patches)}
        IN  /\ \E w \in Widths : \A s \in seeded : s[2] = Gaussian(s[1], w)
            /\ \A s1, s2 \in seeded : s1[1] = s2[1] => s1[2] = s2[2]

\* initial_data has run on three levels; a ghost slot of the finest patch
\* holds a value other than the 0 it was built with, and two slots of
\* different levels lie at one coordinate
C22_Witness ==
    /\ last.op = "initial_data" /\ Len(levels) = 3 /\ Len(patches) = 3
    /\ patches[3].data[0][0] # Zero
    /\ \E i1 \in 0..(Width(patches[2]) - 1), i2 \in 0..(Width(patches[3]) - 1) :
          CellCentre(patches[2], i1) = CellCentre(patches[3], i2)

\* the fields of a patch other than its buffer
Shape(p) ==
    [nv |-> p.nv, nx |-> p.nx, ngz |-> p.ngz, x0 |-> p.x0, dx |-> p.dx,
     parent |-> p.parent, parent_i_start |-> p.parent_i_start]

\* C23: initial_data and evolve add, remove and resize nothing: every step
\* of a run leaves the levels, the number of patches and each patch's nx,
\* ngz, x0, dx, problem, parent and parent_i_start as they were, and every
\* buffer always has the shape (nv, nx + 2 ngz).
C23_StructureFixed ==
    /\ [](\A id \in 1..Len(patches) :
            /\ DOMAIN patches[id].data = 0..(patches[id].nv - 1)
            /\ \A f \in DOMAIN patches[id].data :
                  DOMAIN patches[id].data[f] = 0..(patches[id].nx + 2 * patches[id].ngz - 1))
    /\ [][/\ levels' = levels
          /\ Len(patches') = Len(patches)
          /\ \A id \in 1..Len(patches) : Shape(patches'[id]) = Shape(patches[id])]_vars

\* a seeded hierarchy of three levels has been evolved through two passes
C23_Witness ==
    /\ pc = "ready" /\ Len(levels) = 3 /\ Len(patches) = 3
    /\ Len(calls) = 1 /\ calls[1].passes = 2
    /\ \E i \in 0..(Width(patches[1]) - 1) : patches[1].data[0][i] # Zero

----------------------------------------------------------------------------
(* Claims about restriction through three levels, checked under Spec        *)

\* the stepping phase of a pass on three levels, one patch each, is over and
\* no restriction has run yet
BeforeRestriction ==
    pc = "restrict" /\ cur = 1 /\ Len(levels) = 3 /\ Len(patches) = 3

\* what slot s of the level-1 patch holds once the level-2 patch has been
\* restricted into it
Level1After(s) ==
    LET k == s - patches[3].parent_i_start
    IN  IF k \in 0..(patches[3].nx \div 2 - 1)
        THEN Mul(Half, Add(patches[3].data[0][patches[3].ngz + 2 * k],
                           patches[3].data[0][patches[3].ngz + 2 * k + 1]))
        ELSE patches[2].data[0][s]

\* the level-0 buffer after the restrictions in the driver's order, finest
\* level first, and in the reverse order, level 1 into level 0 first
FinestFirst == RestrictAll(patches, RestrictOrder(levels), 1)
CoarsestFirst == RestrictAll(patches, <<1, 2, 3>>, 1)

\* C25: in a hierarchy of three levels the two restriction orders are
\* distinguishable: from the state before the restriction phase they leave
\* different level-0 buffers exactly when restricting level 2 into level 1
\* changes the sum of a pair of level-1 cells that level 1 hands on to level
\* 0, and such states are reached.
C25_OrdersDistinguishable ==
    (BeforeRestriction /\ FinestFirst.err = "none" /\ CoarsestFirst.err = "none") =>
        /\ (FinestFirst.ps[1].data # CoarsestFirst.ps[1].data)
              <=> \E j \in 0..(patches[2].nx \div 2 - 1) :
                    Add(Level1After(patches[2].ngz + 2 * j),
                        Level1After(patches[2].ngz + 2 * j + 1))
                      # Add(patches[2].data[0][patches[2].ngz + 2 * j],
                            patches[2].data[0][patches[2].ngz + 2 * j + 1])
        /\ FinestFirst.ps[2] = CoarsestFirst.ps[2]
        /\ FinestFirst.ps[3] = CoarsestFirst.ps[3]

\* a pass has ended and nothing has touched the buffers since
PassJustDone == PassDone /\ last.op = "restrict_interior"

\* before the restriction phase of a pass on three levels, from where the
\* two orders leave different level-0 buffers
C25_Witness ==
    /\ BeforeRestriction
    /\ FinestFirst.err = "none" /\ CoarsestFirst.err = "none"
    /\ FinestFirst.ps[1].data # CoarsestFirst.ps[1].data

\* a <= b
LessEq(a, b) == ~Less(b, a)

\* the cell at slot s of patch q lies inside the interior of patch fine
Covered(q, s, fine) ==
    /\ LessEq(LeftFace(fine, fine.ngz), LeftFace(q, s))
    /\ LessEq(LeftFace(q, s + 1), LeftFace(fine, fine.ngz + fine.nx))

\* C26: at the end of every pass on three levels every level-0 cell that
\* lies inside the level-2 patch's interior holds the mean of the four
\* level-2 cells that cover it, and every level-1 cell inside the level-2
\* interior the mean of its two level-2 cells.  Stated for the
\* configurations whose children are whole numbers of parent cells wide and
\* no wider than the base domain (child_nx a multiple of 4, at most
\* 2 base_nx).
C26_FineDataReachesBase ==
    (PassJustDone /\ Len(levels) = 3 /\ Len(patches) = 3
        /\ args.child_nx % 4 = 0 /\ args.child_nx <= 2 * args.base_nx) =>
        LET p1 == patches[1]
            p2 == patches[2]
            p3 == patches[3]
        IN  /\ \A s \in InteriorSlots(p1) :
                  Covered(p1, s, p3) =>
                      \E j \in InteriorSlots(p3) :
                          /\ LeftFace(p3, j) = LeftFace(p1, s)
                          /\ Mul(Int2D(4), p1.data[0][s])
                               = Add(Add(p3.data[0][j], p3.data[0][j + 1]),
                                     Add(p3.data[0][j + 2], p3.data[0][j + 3]))
            /\ \A s \in InteriorSlots(p2) :
                  Covered(p2, s, p3) =>
                      \E j \in InteriorSlots(p3) :
                          /\ LeftFace(p3, j) = LeftFace(p2, s)
                          /\ Mul(Two, p2.data[0][s])
                               = Add(p3.data[0][j], p3.data[0][j + 1])

\* C28: in every hierarchy mr_simulation constructs every parent slot that
\* restrict_interior writes, parent_i_start + k for k < nx div 2, is an
\* interior slot of the parent: no restriction writes a ghost slot of the
\* parent or indexes outside its buffer.  Stated for children no wider than
\* the base domain (child_nx at most 2 base_nx).
C28_FootprintInInterior ==
    (Len(levels) > 0 /\ args.child_nx <= 2 * args.base_nx) =>
        /\ \A id \in 1..Len(patches) :
              patches[id].parent # NoPatch =>
                  \A k \in 0..(patches[id].nx \div 2 - 1) :
                      (patches[id].parent_i_start + k)
                          \in InteriorSlots(patches[patches[id].parent])
        /\ (last.op = "restrict_interior" /\ last.pre[last.id].parent # NoPatch) =>
              /\ err = "none"
              /\ last.writes \subseteq InteriorSlots(patches[last.pre[last.id].parent])

\* C29: at the end of every pass the ghost slots of the level-0 patch hold
\* the periodic images of its interior cells as they are then: ghost slot i
\* equals interior cell (i - ngz) mod nx.
C29_BaseGhostsCurrent ==
    (PassJustDone /\ Len(levels) > 0) =>
        LET p == patches[1]
        IN  \A f \in DOMAIN p.data : \A i \in GhostSlots(p) :
              p.data[f][i] = p.data[f][p.ngz + ((i - p.ngz) % p.nx)]

\* the arguments are those of the notebook's run
\* mr_simulation(advection, 0.01, 100, 3, [0.5], 100) in units of the base
\* spacing, at a smaller cell count N: base_nx = child_nx = N, a multiple of
\* 4, three levels, one centre in the middle of the domain
DemoArgs ==
    /\ Len(levels) = 3
    /\ args.base_dx = Int2D(1)
    /\ args.base_nx = args.child_nx /\ args.child_nx % 4 = 0
    /\ args.x_centres = <<Mul(Half, Int2D(args.base_nx))>>

\* C30: for the arguments of the notebook's run mr_simulation builds the
\* patches p1, p2, p3 of the hand-written run (same nx, ngz, x0, dx, parent,
\* parent_i_start); evolve uses the hand-written dt = 0.5 * p3.dx; a pass
\* makes the calls of one iteration of the hand-written loop in the same
\* order, and ends with the buffers that iteration gives from the buffers
\* the pass began with.
C30_DriverMatchesManualRun ==
    DemoArgs =>
        LET demo == DemoPatches(1, args.base_nx, 1, args.base_nx \div 4 + 1)
        IN  /\ Len(patches) = 3
            /\ \A id \in 1..3 : Shape(patches[id]) = Shape(demo[id])
            /\ pc \in {"while", "step", "restrict"} => dt = Mul(Half, demo[3].dx)
            /\ Len(log) <= Len(ManualCalls)
            /\ \A b \in 1..Len(log) :
                  /\ log[b].op = ManualCalls[b].op
                  /\ log[b].id = ManualCalls[b].id
            /\ last.op = "euler_step" => last.dt = Mul(Half, demo[3].dx)
            /\ PassJustDone =>
                  /\ Len(log) = Len(ManualCalls)
                  /\ ManualIteration(passStart, Mul(Half, demo[3].dx)).err = "none"
                  /\ patches = ManualIteration(passStart, Mul(Half, demo[3].dx)).ps

\* the second pass of evolve on the seeded hierarchy of the notebook's
\* arguments has run to its end and changed the base patch
C30_Witness ==
    /\ DemoArgs /\ PassJustDone /\ passes = 2
    /\ patches[1].data # passStart[1].data
    /\ patches[3].data # passStart[3].data

----------------------------------------------------------------------------
(* Claims about the order of the stepping phase, checked under SpecLoop     *)

\* the buffers the stepping phase gives in the loop's own order, coarse to
\* fine, from the buffers the last call started with
CoarseToFine == StepAll(last.pre, <<1, 2, 3>>, last.dt, 1)

\* the slots of patch p that the ghost fill from the parent assigns: 2i,
\* 2i+1, -2i-1, -2i-2 for i < ngz div 2 when p has a parent
MrAssigned(p) ==
    IF p.parent = NoPatch THEN {}
    ELSE UNION {{2 * i, 2 * i + 1, Width(p) - 2 * i - 1, Width(p) - 2 * i - 2} :
                   i \in 0..(p.ngz \div 2 - 1)}

\* C27 as stated: whatever the order in which the three patches are stepped,
\* for any ghost count, the stepping phase leaves the buffers the
\* coarse-to-fine order leaves.
C27_StepOrderIrrelevant ==
    (last.op = "step_loop" /\ err = "none") =>
        /\ CoarseToFine.err = "none"
        /\ patches = CoarseToFine.ps

\* C27: whatever the order in which the three patches are stepped, the
\* stepping phase leaves in every slot that the ghost fill from the parent
\* does not assign the value the coarse-to-fine order leaves there; with one
\* ghost cell that fill assigns nothing and all buffers are the same, with
\* two or more it assigns slots 0, 1, -1, -2 of each child from the parent as
\* it is at that moment, stepped or not.
C27_StepOrderOutsideMrSlots ==
    (last.op = "step_loop" /\ err = "none") =>
        /\ CoarseToFine.err = "none"
        /\ \A id \in 1..Len(patches) : \A f \in DOMAIN patches[id].data :
              \A i \in 0..(Width(patches[id]) - 1) :
                  i \notin MrAssigned(patches[id]) =>
                      patches[id].data[f][i] = CoarseToFine.ps[id].data[f][i]
        /\ patches[1].ngz = 1 => patches = CoarseToFine.ps

\* the three patches, two ghost cells each, were stepped finest first, and a
\* child's buffer is not the one the coarse-to-fine order gives
C27_Witness ==
    /\ last.op = "step_loop" /\ err = "none"
    /\ last.out = <<3, 2, 1>>
    /\ patches[1].ngz = 2
    /\ patches[2].data # CoarseToFine.ps[2].data
    /\ patches[1].data # last.pre[1].data

\* the three patches, one ghost cell each, were stepped finest first
C27_WitnessOneGhost ==
    /\ last.op = "step_loop" /\ err = "none"
    /\ last.out = <<3, 2, 1>>
    /\ patches[1].ngz = 1
    /\ \A id \in 1..3 : patches[id].data # last.pre[id].data

====
